---- MODULE Spec2Model ----
(***************************************************************************)
(* SnapMatch: perceptual-hash matching of edited images to raw originals.  *)
(*                                                                         *)
(* The module models                                                       *)
(*   - matching.find_best_match and hashing.hamming_distance (SpecMatch),  *)
(*   - io_utils.save_cache / load_cache and the CSV text between them      *)
(*     (SpecCache),                                                        *)
(*   - cli.main: reference fingerprinting with the cache and the worker    *)
(*     pool, query fingerprinting and the matching loop (Spec, SpecEnv).   *)
(*                                                                         *)
(* Python's None / Optional[T] is modelled as a sequence of length <= 1:   *)
(* None is << >> and a present value x is << x >>.                         *)
(***************************************************************************)
EXTENDS Integers, Sequences, FiniteSets, TLC

VARIABLES
    call,           \* SpecMatch, SpecCache: the function applied, its arguments and result
    args,           \* main: the parsed command line
    pc,             \* main: the statement the main process is at
    halt,           \* main: the exception that ended the run (None while running)
    fs,             \* the reference files: path -> [exists, mtime_ns, size, img]
    disk,           \* the cache file: None while it does not exist, else Some(text)
    cache,          \* _hash_raw_images: the mapping load_cache returned
    paths,          \* _hash_raw_images: the enumerated reference paths
    idx,            \* the index of the loop the main process is in (1-based)
    reuse,          \* _hash_raw_images: hashes taken from the cache
    todo,           \* _hash_raw_images: paths to fingerprint
    out,            \* _hash_raw_images: the merged list
    submitted,      \* pool: number of tasks a worker has taken, in submission order
    running,        \* pool: tasks (positions in todo) a worker is executing
    results,        \* pool: the results of ex.map, by position
    raw_hashes,     \* main: the reference fingerprints
    edited_hashes,  \* main: the query fingerprints
    mapping_rows,   \* main: the report rows
    report,         \* mapping.csv: None until written
    loads,          \* history: calls of load_cache
    saves,          \* history: calls of save_cache that opened the file
    hashed,         \* history: calls of _hash_path_worker: [path, by, result]
    checked,        \* history: the cache checks: [path, st, reused]
    edited_seen,    \* history: calls of dhash64 on query files: [path, result]
    disk0,          \* history: the cache file when the run started
    envUsed,        \* SpecEnv: the external writer has acted
    overtaken       \* history: a task ended while an earlier one was still running

runVars ==
    <<args, pc, halt, fs, disk, cache, paths, idx, reuse, todo, out, submitted,
      running, results, raw_hashes, edited_hashes, mapping_rows, report, loads,
      saves, hashed, checked, edited_seen, disk0, envUsed, overtaken>>

vars == <<call, runVars>>

\* ---------------------------------------------------------------- bounds

\* Width of a fingerprint in bits (64 in the program).
HashBits == 2

\* Longest reference sequence handed to find_best_match in SpecMatch.
MaxRefs == 3

\* Most entries of a mapping saved and reloaded in SpecCache.
MaxEntries == 2

\* Reference files and query files of a run.
MaxRaw == 2

MaxQuery == 2

\* Largest --workers value; also the size of the pool --workers 0 picks
\* (the machine's processor count).
MaxWorkers == 2

\* ------------------------------------------------------------- Optional

None == << >>

Some(x) == << x >>

\* ------------------------------------------------------------ hashing.py

Hashes == 0 .. (2 ^ HashBits - 1)

ImageHash(p, h) == [path |-> p, dhash |-> h]

RECURSIVE Xor(_, _)
Xor(a, b) ==
    IF a = 0 /\ b = 0 THEN 0
    ELSE ((a + b) % 2) + 2 * Xor(a \div 2, b \div 2)

RECURSIVE BitCount(_)
BitCount(x) == IF x = 0 THEN 0 ELSE (x % 2) + BitCount(x \div 2)

hamming_distance(a, b) == BitCount(Xor(a, b))

\* ----------------------------------------------------------- matching.py

\* A sentinel equal to the largest possible distance, not above it.
best_dist_width == HashBits

best_dist_init == 10 ^ 9

ImprovesOrTies(d, best_dist) == d <= best_dist

Improves(d, best_dist) == d < best_dist

\* The loop of find_best_match from position k on (1-based), with the
\* running best index (Optional, 0-based as in the program) and distance.
RECURSIVE Scan(_, _, _, _, _)
Scan(ehash, refs, k, best_idx, best_dist) ==
    IF k > Len(refs) THEN [best_idx |-> best_idx, best_dist |-> best_dist]
    ELSE LET d == hamming_distance(ehash, refs[k].dhash)
         IN  IF Improves(d, best_dist)
             THEN IF d = 0
                  THEN [best_idx |-> Some(k - 1), best_dist |-> d]
                  ELSE Scan(ehash, refs, k + 1, Some(k - 1), d)
             ELSE Scan(ehash, refs, k + 1, best_idx, best_dist)

MatchStatusStrict(best_dist, max_distance) ==
    IF best_dist < max_distance THEN "matched" ELSE "no_match"

MatchStatus(best_dist, max_distance) ==
    IF best_dist <= max_distance THEN "matched" ELSE "no_match"

MatchResult(ep, eh, rp, rh, d, s) ==
    [edited_path |-> ep, edited_hash |-> eh, matched_raw_path |-> rp,
     matched_raw_hash |-> rh, distance |-> d, status |-> s]

find_best_match(edited, refs, max_distance) ==
    LET s == Scan(edited.dhash, refs, 1, None, best_dist_init)
    IN  IF s.best_idx = None
        THEN MatchResult(edited.path, edited.dhash, None, None, None, "no_match")
        ELSE LET best == refs[s.best_idx[1] + 1]
             IN  MatchResult(edited.path, edited.dhash, Some(best.path),
                             Some(best.dhash), Some(s.best_dist),
                             MatchStatus(s.best_dist, max_distance))

\* ----------------------------------------------- io_utils.py: CSV text
\* A text is a sequence of one-character strings.  The cache file is
\* written by csv.writer and read by csv.DictReader, both in the default
\* ("excel") dialect: delimiter ',', quotechar '"', doublequote,
\* lineterminator "\r\n", minimal quoting, not strict.

Digits == <<"0", "1", "2", "3", "4", "5", "6", "7", "8", "9">>

RECURSIVE NatToText(_)
NatToText(n) ==
    IF n < 10 THEN <<Digits[n + 1]>>
    ELSE Append(NatToText(n \div 10), Digits[(n % 10) + 1])

\* str(n) of an int.
IntToText(n) == IF n < 0 THEN <<"-">> \o NatToText(0 - n) ELSE NatToText(n)

DigitValue(c) == CHOOSE d \in 0 .. 9 : Digits[d + 1] = c

IsDigit(c) == \E d \in 1 .. 10 : Digits[d] = c

RECURSIVE DigitsToNat(_, _)
DigitsToNat(t, acc) ==
    IF t = << >> THEN acc
    ELSE DigitsToNat(Tail(t), 10 * acc + DigitValue(Head(t)))

\* int(s) of a str: the value, or None where int() raises ValueError.
TextToInt(t) ==
    LET signed == t # << >> /\ Head(t) \in {"-", "+"}
        body == IF signed THEN Tail(t) ELSE t
    IN  IF body = << >> \/ \E k \in 1 .. Len(body) : ~IsDigit(body[k])
        THEN None
        ELSE IF signed /\ Head(t) = "-"
             THEN Some(0 - DigitsToNat(body, 0))
             ELSE Some(DigitsToNat(body, 0))

NeverQuoted(f) == FALSE

\* csv.writer, QUOTE_MINIMAL: a field is quoted when it holds the
\* delimiter, the quote character or a character of the line terminator.
NeedsQuote(f) == \E k \in 1 .. Len(f) : f[k] \in {",", "\"", "\r", "\n"}

RECURSIVE DoubleQuotes(_)
DoubleQuotes(f) ==
    IF f = << >> THEN << >>
    ELSE (IF Head(f) = "\"" THEN <<"\"", "\"">> ELSE <<Head(f)>>)
             \o DoubleQuotes(Tail(f))

WriteField(f) ==
    IF NeedsQuote(f) THEN <<"\"">> \o DoubleQuotes(f) \o <<"\"">> ELSE f

RECURSIVE JoinFields(_)
JoinFields(fields) ==
    IF Len(fields) = 1 THEN WriteField(fields[1])
    ELSE WriteField(Head(fields)) \o <<",">> \o JoinFields(Tail(fields))

\* writer.writerow(fields): the line appended to the file.
writerow(fields) == JoinFields(fields) \o <<"\r", "\n">>

HeaderFields ==
    << <<"p", "a", "t", "h">>,
       <<"m", "t", "i", "m", "e", "_", "n", "s">>,
       <<"s", "i", "z", "e">>,
       <<"d", "h", "a", "s", "h">> >>

\* The row save_cache writes for one hash, given the file's stat result.
CacheRow(h, st) ==
    writerow(<<h.path, IntToText(st.mtime_ns), IntToText(st.size), IntToText(h.dhash)>>)

\* The csv reader's automaton.  EOL is the end-of-line mark the reader
\* feeds itself after the last character of every line it is handed.
EOL == "EOL"

ReaderStart ==
    [state |-> "START_RECORD", field |-> << >>, fields |-> << >>,
     rows |-> << >>, error |-> FALSE]

SaveField(r) == [r EXCEPT !.fields = Append(r.fields, r.field), !.field = << >>]

AddChar(r, c) == [r EXCEPT !.field = Append(r.field, c)]

AfterNewline(c) == IF c = EOL THEN "START_RECORD" ELSE "EAT_CRNL"

RECURSIVE ProcessChar(_, _)
ProcessChar(r, c) ==
    CASE r.state = "START_RECORD" ->
            IF c = EOL THEN r
            ELSE IF c \in {"\n", "\r"} THEN [r EXCEPT !.state = "EAT_CRNL"]
            ELSE ProcessChar([r EXCEPT !.state = "START_FIELD"], c)
      [] r.state = "START_FIELD" ->
            IF c \in {"\n", "\r", EOL}
            THEN [SaveField(r) EXCEPT !.state = AfterNewline(c)]
            ELSE IF c = "\"" THEN [r EXCEPT !.state = "IN_QUOTED_FIELD"]
            ELSE IF c = "," THEN SaveField(r)
            ELSE [AddChar(r, c) EXCEPT !.state = "IN_FIELD"]
      [] r.state = "IN_FIELD" ->
            IF c \in {"\n", "\r", EOL}
            THEN [SaveField(r) EXCEPT !.state = AfterNewline(c)]
            ELSE IF c = "," THEN [SaveField(r) EXCEPT !.state = "START_FIELD"]
            ELSE AddChar(r, c)
      [] r.state = "IN_QUOTED_FIELD" ->
            IF c = EOL THEN r
            ELSE IF c = "\"" THEN [r EXCEPT !.state = "QUOTE_IN_QUOTED_FIELD"]
            ELSE AddChar(r, c)
      [] r.state = "QUOTE_IN_QUOTED_FIELD" ->
            IF c = "\"" THEN [AddChar(r, c) EXCEPT !.state = "IN_QUOTED_FIELD"]
            ELSE IF c = "," THEN [SaveField(r) EXCEPT !.state = "START_FIELD"]
            ELSE IF c \in {"\n", "\r", EOL}
                 THEN [SaveField(r) EXCEPT !.state = AfterNewline(c)]
            ELSE [AddChar(r, c) EXCEPT !.state = "IN_FIELD"]
      [] r.state = "EAT_CRNL" ->
            IF c \in {"\n", "\r"} THEN r
            ELSE IF c = EOL THEN [r EXCEPT !.state = "START_RECORD"]
            ELSE [r EXCEPT !.error = TRUE]

\* The end of a line: the EOL mark, and the record handed out once the
\* automaton is back at START_RECORD.
EndLine(r) ==
    LET e == ProcessChar(r, EOL)
    IN  IF e.state = "START_RECORD"
        THEN [e EXCEPT !.rows = Append(e.rows, e.fields), !.fields = << >>]
        ELSE e

\* A file opened with newline="" hands out lines that end after "\n",
\* after "\r\n", after a lone "\r", or at the end of the file.
LineEndsAt(text, k) ==
    \/ text[k] = "\n"
    \/ text[k] = "\r" /\ (k = Len(text) \/ text[k + 1] # "\n")
    \/ k = Len(text)

RECURSIVE ReadFrom(_, _, _)
ReadFrom(text, k, r) ==
    IF r.error THEN r
    ELSE IF k > Len(text)
         THEN IF r.field # << >> \/ r.state = "IN_QUOTED_FIELD"
              THEN LET e == SaveField(r)
                   IN  [e EXCEPT !.rows = Append(e.rows, e.fields), !.fields = << >>]
              ELSE r
    ELSE LET c == ProcessChar(r, text[k])
         IN  IF c.error THEN c
             ELSE ReadFrom(text, k + 1, IF LineEndsAt(text, k) THEN EndLine(c) ELSE c)

\* csv.reader over the whole file: the rows, or error (csv.Error raised).
ReadCsv(text) == ReadFrom(text, 1, ReaderStart)

\* -------------------------------------------------- io_utils.py: cache

CacheEntry(m, s, d) == [mtime_ns |-> m, size |-> s, dhash |-> d]

\* row[key] of the dict DictReader builds from the header and a row: the
\* last column of that name wins, a missing column is a KeyError ("none"),
\* a column the row is too short for is None.
RowGet(header, row, key) ==
    LET cols == {n \in 1 .. Len(header) : header[n] = key}
    IN  IF cols = {} THEN [found |-> FALSE, value |-> None]
        ELSE LET n == CHOOSE c \in cols : \A o \in cols : o <= c
             IN  [found |-> TRUE,
                  value |-> IF n <= Len(row) THEN Some(row[n]) ELSE None]

\* int(row[key]): None where the lookup or the conversion raises.
RowInt(header, row, key) ==
    LET g == RowGet(header, row, key)
    IN  IF ~g.found \/ g.value = None THEN None ELSE TextToInt(g.value[1])

\* The loop body of load_cache on one row: the cache after it.  A row
\* whose lookups or conversions raise is skipped.
LoadRow(acc, header, row) ==
    LET p == RowGet(header, row, <<"p", "a", "t", "h">>)
        m == RowInt(header, row, <<"m", "t", "i", "m", "e", "_", "n", "s">>)
        s == RowInt(header, row, <<"s", "i", "z", "e">>)
        d == RowInt(header, row, <<"d", "h", "a", "s", "h">>)
    IN  IF ~p.found \/ m = None \/ s = None \/ d = None THEN acc
        ELSE LET key == IF p.value = None THEN None ELSE p.value[1]
                 ce == CacheEntry(m[1], s[1], d[1])
             IN  [k \in DOMAIN acc \cup {key} |-> IF k = key THEN ce ELSE acc[k]]

RECURSIVE LoadRows(_, _, _, _)
LoadRows(acc, header, rows, k) ==
    IF k > Len(rows) THEN acc
    ELSE IF rows[k] = << >> THEN LoadRows(acc, header, rows, k + 1)
    ELSE LoadRows(LoadRow(acc, header, rows[k]), header, rows, k + 1)

EmptyCache == [k \in {} |-> CacheEntry(0, 0, 0)]

\* load_cache(cache_path): file is None when the cache file does not
\* exist, else Some(text).  The result maps path strings to CacheEntry.
load_cache(file) ==
    IF file = None THEN EmptyCache
    ELSE LET r == ReadCsv(file[1])
         IN  IF r.error THEN EmptyCache
             ELSE IF r.rows = << >> THEN EmptyCache
             ELSE LoadRows(EmptyCache, r.rows[1], r.rows, 2)

\* save_cache(cache_path, hashes) where every path can be stat'ed: the
\* text of the file it leaves.  stats[i] is the stat result of hashes[i].
RECURSIVE CacheRows(_, _, _)
CacheRows(hashes, stats, k) ==
    IF k > Len(hashes) THEN << >>
    ELSE CacheRow(hashes[k], stats[k]) \o CacheRows(hashes, stats, k + 1)

save_cache(hashes, stats) == writerow(HeaderFields) \o CacheRows(hashes, stats, 1)

\* ------------------------------------------------------------ the files

PathNames == <<"a", "b", "c", "d", "e", "f">>

RawPath(n) == <<"r", PathNames[n]>>

EditedPath(n) == <<"e", PathNames[n]>>

\* The order in which iter_images yields the files of each folder.
RawPathSeq == [n \in 1 .. MaxRaw |-> RawPath(n)]

EditedPathSeq == [n \in 1 .. MaxQuery |-> EditedPath(n)]

RawPaths == {RawPath(n) : n \in 1 .. MaxRaw}

\* The fingerprint of the picture in the n-th reference and query file.
RawContent(n) == ((n - 1) * (2 ^ HashBits - 1)) % (2 ^ HashBits)

EditedContent(n) == (2 * n - 1) % (2 ^ HashBits)

\* A file: img is None when the file is no decodable image, else its
\* picture's fingerprint.
File(m, s, img) == [exists |-> TRUE, mtime_ns |-> m, size |-> s, img |-> img]

\* p.stat(): None where it raises OSError.
stat(files, p) ==
    IF files[p].exists
    THEN Some([mtime_ns |-> files[p].mtime_ns, size |-> files[p].size])
    ELSE None

\* dhash64(p): None when the file cannot be opened or decoded.
dhash64(files, p) == IF files[p].exists THEN files[p].img ELSE None

\* ---------------------------------------------------------------- cli.py

hash_path_worker(files, p) ==
    LET h == dhash64(files, p)
    IN  IF h = None THEN None ELSE Some(ImageHash(p, h[1]))

SameMtime(c, key, st) ==
    key \in DOMAIN c /\ c[key].mtime_ns = st.mtime_ns

\* The test of _hash_raw_images on the cache entry of a path.
CacheHit(c, key, st) ==
    key \in DOMAIN c /\ c[key].mtime_ns = st.mtime_ns /\ c[key].size = st.size

\* The pool a --workers value other than 1 makes.
PoolSize(workers) ==
    IF workers = 0 THEN MaxWorkers ELSE IF workers < 1 THEN 1 ELSE workers

CompletionSlot(t, res) == Cardinality(DOMAIN res) + 1

\* ex.map hands the results out by the position of their argument.
ResultSlot(t, res) == t

FirstConsumed(k, work) == k > 1

\* The for loop over the results (or over todo) has run to its end.
LoopDone(k, work) == k > Len(work)

NoCall == [fn |-> "none"]

NoResults == [t \in {} |-> None]

\* The run's variables where no run is modelled.
RunIdle ==
    /\ args = [workers |-> 1, max_distance |-> 0]
    /\ pc = "idle"
    /\ halt = None
    /\ fs = [p \in {} |-> File(0, 0, None)]
    /\ disk = None
    /\ cache = EmptyCache
    /\ paths = << >>
    /\ idx = 1
    /\ reuse = << >>
    /\ todo = << >>
    /\ out = << >>
    /\ submitted = 0
    /\ running = {}
    /\ results = NoResults
    /\ raw_hashes = << >>
    /\ edited_hashes = << >>
    /\ mapping_rows = << >>
    /\ report = None
    /\ loads = 0
    /\ saves = 0
    /\ hashed = {}
    /\ checked = << >>
    /\ edited_seen = << >>
    /\ disk0 = None
    /\ envUsed = FALSE
    /\ overtaken = FALSE

\* What the cache file holds for a reference file when the run starts:
\* nothing, the file's present (mtime, size), or an entry whose mtime or
\* size differs.  The cached fingerprint is not the picture's.
CacheKinds == {"none", "same", "mtime", "size"}

CachedStat(f, kind) ==
    [mtime_ns |-> IF kind = "mtime" THEN f.mtime_ns - 1 ELSE f.mtime_ns,
     size |-> IF kind = "size" THEN f.size - 1 ELSE f.size]

CachedHash(n) == (RawContent(n) + 1) % (2 ^ HashBits)

RECURSIVE CachedSeq(_, _, _)
CachedSeq(kinds, n, acc) ==
    IF n > MaxRaw THEN acc
    ELSE CachedSeq(kinds, n + 1, IF kinds[n] = "none" THEN acc ELSE Append(acc, n))

\* The cache file an earlier run left: absent when it holds no entry.
InitialDisk(files, kinds) ==
    LET ns == CachedSeq(kinds, 1, << >>)
    IN  IF ns = << >> THEN None
        ELSE Some(save_cache(
                 [k \in 1 .. Len(ns) |-> ImageHash(RawPath(ns[k]), CachedHash(ns[k]))],
                 [k \in 1 .. Len(ns) |-> CachedStat(files[RawPath(ns[k])], kinds[ns[k]])]))

Init ==
    /\ call = NoCall
    /\ \E w \in 0 .. MaxWorkers : args = [workers |-> w, max_distance |-> 1]
    /\ pc = "main"
    /\ halt = None
    /\ \E dec \in [1 .. MaxRaw -> BOOLEAN], kinds \in [1 .. MaxRaw -> CacheKinds] :
           /\ fs = [p \in RawPaths |->
                       LET n == CHOOSE k \in 1 .. MaxRaw : RawPath(k) = p
                       IN  File(10, 7, IF dec[n] THEN Some(RawContent(n)) ELSE None)]
           /\ disk = InitialDisk(fs, kinds)
    /\ disk0 = disk
    /\ cache = EmptyCache
    /\ paths = << >>
    /\ idx = 1
    /\ reuse = << >>
    /\ todo = << >>
    /\ out = << >>
    /\ submitted = 0
    /\ running = {}
    /\ results = NoResults
    /\ raw_hashes = << >>
    /\ edited_hashes = << >>
    /\ mapping_rows = << >>
    /\ report = None
    /\ loads = 0
    /\ saves = 0
    /\ hashed = {}
    /\ checked = << >>
    /\ edited_seen = << >>
    /\ envUsed = FALSE
    /\ overtaken = FALSE

\* main, up to the call of _hash_raw_images: --raw and --edited must be
\* existing folders.
MainStart ==
    /\ pc = "main"
    /\ \E dirs_ok \in BOOLEAN :
          IF dirs_ok
          THEN pc' = "load_cache" /\ halt' = halt
          ELSE pc' = "exit" /\ halt' = Some("SystemExit: folder")
    /\ UNCHANGED <<call, args, fs, disk, cache, paths, idx, reuse, todo, out,
                   submitted, running, results, raw_hashes, edited_hashes,
                   mapping_rows, report, loads, saves, hashed, checked,
                   edited_seen, disk0, envUsed, overtaken>>

\* _hash_raw_images: cache = load_cache(cache_path).
HriLoadCache ==
    /\ pc = "load_cache"
    /\ cache' = load_cache(disk)
    /\ loads' = loads + 1
    /\ pc' = "iter_images"
    /\ UNCHANGED <<call, args, halt, fs, disk, paths, idx, reuse, todo, out,
                   submitted, running, results, raw_hashes, edited_hashes,
                   mapping_rows, report, saves, hashed, checked, edited_seen,
                   disk0, envUsed, overtaken>>

Exists(p) == fs[p].exists

\* _hash_raw_images: paths = list(iter_images(raw_dir)).
HriIterImages ==
    /\ pc = "iter_images"
    /\ paths' = SelectSeq(RawPathSeq, Exists)
    /\ idx' = 1
    /\ pc' = "check"
    /\ UNCHANGED <<call, args, halt, fs, disk, cache, reuse, todo, out,
                   submitted, running, results, raw_hashes, edited_hashes,
                   mapping_rows, report, loads, saves, hashed, checked,
                   edited_seen, disk0, envUsed, overtaken>>

\* _hash_raw_images: one round of the loop that sorts the paths into reuse
\* and todo.
HriCheckPath ==
    /\ pc = "check"
    /\ idx <= Len(paths)
    /\ LET p == paths[idx]
           st == stat(fs, p)
       IN  IF st = None
           THEN /\ checked' = Append(checked, [path |-> p, st |-> None, reused |-> FALSE])
                /\ UNCHANGED <<reuse, todo>>
           ELSE IF CacheHit(cache, p, st[1])
                THEN /\ reuse' = Append(reuse, ImageHash(p, cache[p].dhash))
                     /\ checked' = Append(checked, [path |-> p, st |-> st, reused |-> TRUE])
                     /\ todo' = todo
                ELSE /\ todo' = Append(todo, p)
                     /\ checked' = Append(checked, [path |-> p, st |-> st, reused |-> FALSE])
                     /\ reuse' = reuse
    /\ idx' = idx + 1
    /\ UNCHANGED <<call, args, pc, halt, fs, disk, cache, paths, out, submitted,
                   running, results, raw_hashes, edited_hashes, mapping_rows,
                   report, loads, saves, hashed, edited_seen, disk0, envUsed, overtaken>>

\* _hash_raw_images after the loop: out starts as reuse; with nothing to
\* fingerprint it returns, else it hashes in-process (workers == 1) or
\* hands todo to a pool.
HriPartitioned ==
    /\ pc = "check"
    /\ idx > Len(paths)
    /\ out' = reuse
    /\ idx' = 1
    /\ IF todo = << >>
       THEN raw_hashes' = reuse /\ pc' = "main_raw"
       ELSE /\ raw_hashes' = raw_hashes
            /\ pc' = IF args.workers = 1 THEN "hash_seq" ELSE "pool"
    /\ UNCHANGED <<call, args, halt, fs, disk, cache, paths, reuse, todo,
                   submitted, running, results, edited_hashes, mapping_rows,
                   report, loads, saves, hashed, checked, edited_seen, disk0,
                   envUsed, overtaken>>

\* _hash_raw_images, workers == 1: one round of the in-process loop.
HriHashInProcess ==
    /\ pc = "hash_seq"
    /\ idx <= Len(todo)
    /\ LET r == hash_path_worker(fs, todo[idx])
       IN  /\ out' = IF r = None THEN out ELSE Append(out, r[1])
           /\ hashed' = hashed \cup {[path |-> todo[idx], by |-> "main", result |-> r,
                                      st |-> stat(fs, todo[idx])]}
    /\ idx' = idx + 1
    /\ UNCHANGED <<call, args, pc, halt, fs, disk, cache, paths, reuse, todo,
                   submitted, running, results, raw_hashes, edited_hashes,
                   mapping_rows, report, loads, saves, checked, edited_seen,
                   disk0, envUsed, overtaken>>

\* A free worker of the pool takes the next task.
WorkerTake ==
    /\ pc = "pool"
    /\ submitted < Len(todo)
    /\ Cardinality(running) < PoolSize(args.workers)
    /\ submitted' = submitted + 1
    /\ running' = running \cup {submitted + 1}
    /\ UNCHANGED <<call, args, pc, halt, fs, disk, cache, paths, idx, reuse, todo,
                   out, results, raw_hashes, edited_hashes, mapping_rows, report,
                   loads, saves, hashed, checked, edited_seen, disk0, envUsed, overtaken>>

\* A worker runs _hash_path_worker on its task and posts the result.
WorkerFinish ==
    /\ \E t \in running :
          LET r == hash_path_worker(fs, todo[t])
              slot == ResultSlot(t, results)
          IN  /\ results' = [k \in DOMAIN results \cup {slot} |->
                                IF k = slot THEN r ELSE results[k]]
              /\ running' = running \ {t}
              /\ hashed' = hashed \cup {[path |-> todo[t], by |-> "worker", result |-> r,
                                         st |-> stat(fs, todo[t])]}
              /\ overtaken' = (overtaken \/ \E e \in running : e < t)
    /\ UNCHANGED <<call, args, pc, halt, fs, disk, cache, paths, idx, reuse, todo,
                   out, submitted, raw_hashes, edited_hashes, mapping_rows,
                   report, loads, saves, checked, edited_seen, disk0, envUsed>>

\* _hash_raw_images, pool: one round of the loop over ex.map's results,
\* which waits for the result of the next position.
HriCollect ==
    /\ pc = "pool"
    /\ idx <= Len(todo)
    /\ idx \in DOMAIN results
    /\ out' = IF results[idx] = None THEN out ELSE Append(out, results[idx][1])
    /\ idx' = idx + 1
    /\ UNCHANGED <<call, args, pc, halt, fs, disk, cache, paths, reuse, todo,
                   submitted, running, results, raw_hashes, edited_hashes,
                   mapping_rows, report, loads, saves, hashed, checked,
                   edited_seen, disk0, envUsed, overtaken>>

\* save_cache: the file is opened for writing, which empties it, and the
\* header row is written.
SaveOpen ==
    /\ pc \in {"hash_seq", "pool"}
    /\ LoopDone(idx, todo)
    /\ disk' = Some(writerow(HeaderFields))
    /\ saves' = saves + 1
    /\ idx' = 1
    /\ pc' = "save_rows"
    /\ UNCHANGED <<call, args, halt, fs, cache, paths, reuse, todo, out,
                   submitted, running, results, raw_hashes, edited_hashes,
                   mapping_rows, report, loads, hashed, checked, edited_seen,
                   disk0, envUsed, overtaken>>

\* save_cache: one round of its loop: the file of the hash is stat'ed and
\* its row written; an OSError of stat leaves save_cache, _hash_raw_images
\* and main, the file being closed on the way.
SaveRow ==
    /\ pc = "save_rows"
    /\ idx <= Len(out)
    /\ LET st == stat(fs, out[idx].path)
       IN  IF st = None
           THEN /\ halt' = Some("OSError: stat in save_cache")
                /\ pc' = "exit"
                /\ UNCHANGED <<disk, idx>>
           ELSE /\ disk' = Some(disk[1] \o CacheRow(out[idx], st[1]))
                /\ idx' = idx + 1
                /\ UNCHANGED <<halt, pc>>
    /\ UNCHANGED <<call, args, fs, cache, paths, reuse, todo, out, submitted,
                   running, results, raw_hashes, edited_hashes, mapping_rows,
                   report, loads, saves, hashed, checked, edited_seen, disk0,
                   envUsed, overtaken>>

\* save_cache returns, and _hash_raw_images returns out.
SaveClose ==
    /\ pc = "save_rows"
    /\ idx > Len(out)
    /\ raw_hashes' = out
    /\ pc' = "main_raw"
    /\ UNCHANGED <<call, args, halt, fs, disk, cache, paths, idx, reuse, todo, out,
                   submitted, running, results, edited_hashes, mapping_rows,
                   report, loads, saves, hashed, checked, edited_seen, disk0,
                   envUsed, overtaken>>

\* main: no reference fingerprint ends the run; else _hash_edited_images
\* enumerates the query files.
MainCheckRaw ==
    /\ pc = "main_raw"
    /\ IF raw_hashes = << >>
       THEN pc' = "exit" /\ halt' = Some("SystemExit: no raw images")
       ELSE pc' = "hash_edited" /\ halt' = halt
    /\ idx' = 1
    /\ UNCHANGED <<call, args, fs, disk, cache, paths, reuse, todo, out,
                   submitted, running, results, raw_hashes, edited_hashes,
                   mapping_rows, report, loads, saves, hashed, checked,
                   edited_seen, disk0, envUsed, overtaken>>

\* _hash_edited_images: one round of its loop; dhash64 of the query file
\* gives its picture's fingerprint, or None.
HashEdited ==
    /\ pc = "hash_edited"
    /\ idx <= Len(EditedPathSeq)
    /\ \E h \in {None, Some(EditedContent(idx))} :
          /\ edited_seen' = Append(edited_seen, [path |-> EditedPathSeq[idx], result |-> h])
          /\ edited_hashes' = IF h = None THEN edited_hashes
                              ELSE Append(edited_hashes, ImageHash(EditedPathSeq[idx], h[1]))
    /\ idx' = idx + 1
    /\ UNCHANGED <<call, args, pc, halt, fs, disk, cache, paths, reuse, todo, out,
                   submitted, running, results, raw_hashes, mapping_rows, report,
                   loads, saves, hashed, checked, disk0, envUsed, overtaken>>

\* main: no query fingerprint ends the run; else the matching loop starts.
MainCheckEdited ==
    /\ pc = "hash_edited"
    /\ idx > Len(EditedPathSeq)
    /\ IF edited_hashes = << >>
       THEN pc' = "exit" /\ halt' = Some("SystemExit: no edited images")
       ELSE pc' = "match" /\ halt' = halt
    /\ idx' = 1
    /\ UNCHANGED <<call, args, fs, disk, cache, paths, reuse, todo, out,
                   submitted, running, results, raw_hashes, edited_hashes,
                   mapping_rows, report, loads, saves, hashed, checked,
                   edited_seen, disk0, envUsed, overtaken>>

FirstRefOnly(refs) == SubSeq(refs, 1, 1)

\* The reference set main hands to find_best_match.
MatchAgainst(refs) == refs

\* main: one round of the matching loop.  Placing a matched file
\* (copy_or_link) may raise, which ends the run.
MatchOne ==
    /\ pc = "match"
    /\ idx <= Len(edited_hashes)
    /\ LET res == find_best_match(edited_hashes[idx], MatchAgainst(raw_hashes),
                                  args.max_distance)
           placed == res.status = "matched" /\ res.matched_raw_path # None
       IN  \E copied \in (IF placed THEN BOOLEAN ELSE {TRUE}) :
              IF copied
              THEN /\ mapping_rows' = Append(mapping_rows,
                        [edited |-> res.edited_path,
                         raw_match |-> res.matched_raw_path,
                         distance |-> res.distance,
                         status |-> res.status,
                         copied_to |-> IF placed THEN res.matched_raw_path ELSE None])
                   /\ idx' = idx + 1
                   /\ UNCHANGED <<pc, halt>>
              ELSE /\ halt' = Some("OSError: copy_or_link")
                   /\ pc' = "exit"
                   /\ UNCHANGED <<mapping_rows, idx>>
    /\ UNCHANGED <<call, args, fs, disk, cache, paths, reuse, todo, out,
                   submitted, running, results, raw_hashes, edited_hashes, report,
                   loads, saves, hashed, checked, edited_seen, disk0, envUsed, overtaken>>

\* main: the report is written and main returns 0.
WriteReports ==
    /\ pc = "match"
    /\ idx > Len(edited_hashes)
    /\ report' = Some(mapping_rows)
    /\ pc' = "done"
    /\ UNCHANGED <<call, args, halt, fs, disk, cache, paths, idx, reuse, todo, out,
                   submitted, running, results, raw_hashes, edited_hashes,
                   mapping_rows, loads, saves, hashed, checked, edited_seen,
                   disk0, envUsed, overtaken>>

Next ==
    \/ MainStart
    \/ HriLoadCache
    \/ HriIterImages
    \/ HriCheckPath
    \/ HriPartitioned
    \/ HriHashInProcess
    \/ WorkerTake
    \/ WorkerFinish
    \/ HriCollect
    \/ SaveOpen
    \/ SaveRow
    \/ SaveClose
    \/ MainCheckRaw
    \/ HashEdited
    \/ MainCheckEdited
    \/ MatchOne
    \/ WriteReports

\* A run during which no other program touches the reference files.
Spec == Init /\ [][Next]_vars

\* Another program acts on a reference file while _hash_raw_images runs:
\* it deletes the file, or rewrites it (new picture, new mtime).  One such
\* event per run is modelled.
InRawPhase ==
    pc \in {"load_cache", "iter_images", "check", "hash_seq", "pool", "save_rows"}

FileVanishes ==
    /\ InRawPhase
    /\ ~envUsed
    /\ \E p \in RawPaths :
          /\ fs[p].exists
          /\ fs' = [fs EXCEPT ![p].exists = FALSE]
    /\ envUsed' = TRUE
    /\ UNCHANGED <<call, args, pc, halt, disk, cache, paths, idx, reuse, todo, out,
                   submitted, running, results, raw_hashes, edited_hashes,
                   mapping_rows, report, loads, saves, hashed, checked,
                   edited_seen, disk0, overtaken>>

FileRewritten ==
    /\ InRawPhase
    /\ ~envUsed
    /\ \E p \in RawPaths :
          /\ fs[p].exists
          /\ fs' = [fs EXCEPT ![p].mtime_ns = @ + 1,
                              ![p].img = IF @ = None THEN None
                                         ELSE Some((@[1] + 1) % (2 ^ HashBits))]
    /\ envUsed' = TRUE
    /\ UNCHANGED <<call, args, pc, halt, disk, cache, paths, idx, reuse, todo, out,
                   submitted, running, results, raw_hashes, edited_hashes,
                   mapping_rows, report, loads, saves, hashed, checked,
                   edited_seen, disk0, overtaken>>

NextEnv == Next \/ FileVanishes \/ FileRewritten

SpecEnv == Init /\ [][NextEnv]_vars

\* ------------------------------------------------------------- SpecMatch
\* find_best_match applied to every query fingerprint, every reference
\* sequence of at most MaxRefs entries and every threshold around the
\* range of distances.

RefSeqs ==
    UNION { [1 .. n -> Hashes] : n \in 0 .. MaxRefs }

Thresholds == -1 .. (HashBits + 1)

InitMatch ==
    /\ RunIdle
    /\ \E q \in Hashes, hs \in RefSeqs, m \in Thresholds :
        call = [fn |-> "find_best_match",
                edited |-> ImageHash(EditedPath(1), q),
                raw_hashes |-> [n \in 1 .. Len(hs) |-> ImageHash(RawPath(n), hs[n])],
                max_distance |-> m,
                ret |-> None]

CallFindBestMatch ==
    /\ call.fn = "find_best_match"
    /\ call.ret = None
    /\ call' = [call EXCEPT !.ret =
                   Some(find_best_match(call.edited, call.raw_hashes, call.max_distance))]
    /\ UNCHANGED runVars

NextMatch == CallFindBestMatch

SpecMatch == InitMatch /\ [][NextMatch]_vars

\* ------------------------------------------------------------- SpecCache
\* save_cache followed by load_cache, for every list of at most
\* MaxEntries hashes with distinct paths.  The paths hold the characters
\* the CSV dialect treats specially; the stat results and fingerprints
\* hold one-digit, several-digit and negative integers.

PathChars == {"a", ",", "\"", "\n"}

SamplePaths ==
    [1 .. 1 -> PathChars] \cup [1 .. 2 -> PathChars] \cup {<<"\r">>, <<"a", "\r">>}

\* (stat result, fingerprint) of a saved file.
SampleFiles ==
    {[mtime_ns |-> -12, size |-> 0, dhash |-> 0],
     [mtime_ns |-> 10, size |-> 7, dhash |-> 2 ^ HashBits - 1]}

DistinctPathSeqs ==
    UNION { {ps \in [1 .. n -> SamplePaths] :
                \A a, b \in 1 .. n : a # b => ps[a] # ps[b]} : n \in 0 .. MaxEntries }

InitCache ==
    /\ RunIdle
    /\ \E ps \in DistinctPathSeqs :
        \E fl \in [1 .. Len(ps) -> SampleFiles] :
            call = [fn |-> "save_cache",
                    hashes |-> [n \in 1 .. Len(ps) |-> ImageHash(ps[n], fl[n].dhash)],
                    stats |-> [n \in 1 .. Len(ps) |->
                                  [mtime_ns |-> fl[n].mtime_ns, size |-> fl[n].size]],
                    file |-> None,
                    ret |-> None]

CallSaveCache ==
    /\ call.fn = "save_cache"
    /\ call' = [call EXCEPT !.fn = "load_cache",
                            !.file = Some(save_cache(call.hashes, call.stats))]
    /\ UNCHANGED runVars

CallLoadCache ==
    /\ call.fn = "load_cache"
    /\ call.ret = None
    /\ call' = [call EXCEPT !.ret = Some(load_cache(call.file))]
    /\ UNCHANGED runVars

NextCache == CallSaveCache \/ CallLoadCache

SpecCache == InitCache /\ [][NextCache]_vars

\* C8: saving N entries with distinct paths and reloading the file gives
\* a mapping with exactly the N saved paths as keys and, for each, the
\* (mtime, size, fingerprint) that was saved for it.
C8_CacheRoundTrip ==
    (call.fn = "load_cache" /\ call.ret # None) =>
        LET loaded == call.ret[1]
            n == Len(call.hashes)
        IN  /\ DOMAIN loaded = {call.hashes[i].path : i \in 1 .. n}
            /\ Cardinality(DOMAIN loaded) = n
            /\ \A i \in 1 .. n :
                   loaded[call.hashes[i].path] =
                       CacheEntry(call.stats[i].mtime_ns, call.stats[i].size,
                                  call.hashes[i].dhash)

\* C8 witness: two entries reloaded, one of them under a path that holds a
\* quote character and so was written quoted and doubled.
C8_Witness ==
    /\ call.fn = "load_cache"
    /\ call.ret # None
    /\ Len(call.hashes) = 2
    /\ \E i \in 1 .. 2 : \E k \in 1 .. Len(call.hashes[i].path) :
           call.hashes[i].path[k] = "\""
    /\ Cardinality(DOMAIN call.ret[1]) = 2

\* ------------------------------------------- statements about SpecMatch

\* Bit k of a fingerprint, and the number of bit positions at which two
\* fingerprints differ.
Bit(x, k) == (x \div (2 ^ k)) % 2

Dist(a, b) == Cardinality({k \in 0 .. (HashBits - 1) : Bit(a, k) # Bit(b, k)})

RefDist(n) == Dist(call.edited.dhash, call.raw_hashes[n].dhash)

RefIdx == 1 .. Len(call.raw_hashes)

Returned == call.fn = "find_best_match" /\ call.ret # None

\* The least position whose distance to the query is minimal over the
\* whole reference sequence.
LowestMinIdx ==
    CHOOSE n \in RefIdx :
        /\ \A j \in RefIdx : RefDist(n) <= RefDist(j)
        /\ \A j \in 1 .. (n - 1) : RefDist(j) > RefDist(n)

\* A scan of the whole sequence, never stopped early, the first entry of a
\* given distance winning: the position it retains.
RECURSIVE FullScanIdx(_, _)
FullScanIdx(n, best) ==
    IF n > Len(call.raw_hashes) THEN best
    ELSE IF best = 0 \/ RefDist(n) < RefDist(best)
         THEN FullScanIdx(n + 1, n)
         ELSE FullScanIdx(n + 1, best)

C2_FirstMinimumReported ==
    (Returned /\ call.raw_hashes # << >>) =>
        LET r == call.ret[1]
            refs == call.raw_hashes
        IN  /\ r.matched_raw_path = Some(refs[LowestMinIdx].path)
            /\ r.matched_raw_hash = Some(refs[LowestMinIdx].dhash)
            /\ r.distance = Some(RefDist(LowestMinIdx))
            /\ r.matched_raw_path = Some(refs[FullScanIdx(1, 0)].path)
            /\ r.distance = Some(RefDist(FullScanIdx(1, 0)))

\* C2 witness: two entries tie at the minimum distance, which is not 0,
\* and the earlier one is reported.
C2_Witness ==
    /\ Returned
    /\ \E i, j \in RefIdx :
          /\ i < j
          /\ RefDist(i) = RefDist(j)
          /\ RefDist(i) > 0
          /\ \A k \in RefIdx : RefDist(i) <= RefDist(k)
          /\ call.ret[1].matched_raw_path = Some(call.raw_hashes[i].path)

HriReturned ==
    \/ pc \in {"main_raw", "hash_edited", "match", "done"}
    \/ pc = "exit" /\ halt \in {Some("SystemExit: no raw images"),
                                Some("SystemExit: no edited images"),
                                Some("OSError: copy_or_link")}

\* save_cache is writing, has just returned, or has raised.  (The cache
\* file does not change after that.)
InSaveCache ==
    \/ pc \in {"save_rows", "main_raw"} /\ saves >= 1
    \/ halt = Some("OSError: stat in save_cache")

\* The loaded cache holds an entry for the path, and the entry's stored
\* (mtime, size) equal the stat result.
StoredIdentityIs(p, st) ==
    /\ p \in DOMAIN cache
    /\ cache[p].mtime_ns = st.mtime_ns
    /\ cache[p].size = st.size

Invoked(p) == \E h \in hashed : h.path = p

Reusable(p) == stat(fs, p) # None /\ StoredIdentityIs(p, stat(fs, p)[1])

Stale(p) == stat(fs, p) # None /\ ~StoredIdentityIs(p, stat(fs, p)[1])

Decodes(p) == dhash64(fs, p) # None

CachedHashOf(p) == ImageHash(p, cache[p].dhash)

FreshHashOf(p) == ImageHash(p, dhash64(fs, p)[1])

RECURSIVE MapSeq(_, _, _)
MapSeq(Op(_), sq, k) ==
    IF k > Len(sq) THEN << >> ELSE <<Op(sq[k])>> \o MapSeq(Op, sq, k + 1)

\* The merged list a run over these files and this cache is to return:
\* the reused hashes in enumeration order, then the hashes of the stale
\* files that decode, in enumeration order.
ExpectedOut ==
    MapSeq(CachedHashOf, SelectSeq(RawPathSeq, Reusable), 1)
        \o MapSeq(FreshHashOf, SelectSeq(SelectSeq(RawPathSeq, Stale), Decodes), 1)

StatOf(h) == stat(fs, h.path)[1]

\* The cache file such a run is to leave: untouched when nothing was
\* stale, else the snapshot of the merged list.
ExpectedDisk ==
    IF SelectSeq(RawPathSeq, Stale) = << >> THEN disk0
    ELSE Some(save_cache(ExpectedOut, MapSeq(StatOf, ExpectedOut, 1)))

\* C5: over the same files and the same initial cache, the merged list
\* _hash_raw_images returns and the cache file it leaves are one function
\* of the files and the cache: the same for workers = 1 (in-process), for
\* every pool size, and for every order in which the workers end.
C5_WorkerCountInvariance ==
    pc = "main_raw" => (raw_hashes = ExpectedOut /\ disk = ExpectedDisk)

\* C5 witness: a pool run returned in which a later task ended before an
\* earlier one, and both gave a fingerprint.
C5_Witness ==
    /\ pc = "main_raw"
    /\ args.workers # 1
    /\ overtaken
    /\ Len(todo) >= 2
    /\ \A k \in 1 .. Len(todo) : Decodes(todo[k])
    /\ Len(raw_hashes) >= 2

\* ---- when the cache file is read and written

\* Every task of the fingerprinting phase has run.
AllTasksRan == \A k \in 1 .. Len(todo) : Invoked(todo[k])

CacheIoOrder ==
    /\ loads <= 1
    /\ saves <= 1
    /\ (submitted > 0 \/ running # {} \/ hashed # {}) => loads = 1
    /\ saves = 1 =>
          /\ loads = 1
          /\ todo # << >>
          /\ running = {}
          /\ AllTasksRan
    /\ HriReturned => (loads = 1 /\ (saves = 1 <=> todo # << >>))

HoldsMergedList ==
    LET onDisk == load_cache(disk)
    IN  \A k \in 1 .. Len(out) :
            /\ out[k].path \in DOMAIN onDisk
            /\ onDisk[out[k].path].dhash = out[k].dhash

\* C7: at every point of a run the cache file holds the complete previous
\* snapshot or the complete new snapshot of the merged mapping.
C7_NeverPartiallyUpdated ==
    \/ disk = disk0
    \/ saves >= 1 /\ HoldsMergedList

\* ---- one outcome per query

Decoded(e) == e.result # None

\* The least distance from a query fingerprint to the reference list, and
\* the first position at that distance.
MinDistTo(q, refs) ==
    CHOOSE d \in 0 .. HashBits :
        /\ \E j \in 1 .. Len(refs) : Dist(q, refs[j].dhash) = d
        /\ \A j \in 1 .. Len(refs) : Dist(q, refs[j].dhash) >= d

FirstNearest(q, refs) ==
    CHOOSE j \in 1 .. Len(refs) :
        /\ Dist(q, refs[j].dhash) = MinDistTo(q, refs)
        /\ \A n \in 1 .. (j - 1) : Dist(q, refs[n].dhash) > MinDistTo(q, refs)

\* C9: a run that succeeds reports exactly one row per query file that
\* was fingerprinted, in the order the query files were enumerated; each
\* row is the nearest entry of the whole reference list; a query file that
\* fails to decode has no row and does not move the others.
C9_OneOutcomePerQueryInOrder ==
    pc = "done" =>
        LET ok == SelectSeq(edited_seen, Decoded)
        IN  /\ edited_seen = [k \in 1 .. Len(EditedPathSeq) |->
                                 [path |-> EditedPathSeq[k], result |-> edited_seen[k].result]]
            /\ report = Some(mapping_rows)
            /\ raw_hashes = out
            /\ raw_hashes # << >>
            /\ Len(mapping_rows) = Len(ok)
            /\ \A k \in 1 .. Len(ok) :
                   LET q == ok[k].result[1]
                       d == MinDistTo(q, raw_hashes)
                   IN  /\ mapping_rows[k].edited = ok[k].path
                       /\ mapping_rows[k].distance = Some(d)
                       /\ mapping_rows[k].raw_match =
                              Some(raw_hashes[FirstNearest(q, raw_hashes)].path)
                       /\ mapping_rows[k].status =
                              IF d <= args.max_distance THEN "matched" ELSE "no_match"

\* C9 witness: a finished run in which the first query file failed to
\* decode and a later one is matched to the second reference entry.
C9_Witness ==
    /\ pc = "done"
    /\ edited_seen[1].result = None
    /\ Len(raw_hashes) >= 2
    /\ Len(mapping_rows) >= 1
    /\ mapping_rows[1].raw_match = Some(raw_hashes[2].path)

\* ---- what ends a run

\* C10: a reference or query file that cannot be stat'ed, opened or
\* decoded at enumeration, cache check, fingerprinting or cache save is
\* left out and the run goes on: a run ends early only for an empty
\* reference or query set or an invalid configuration value (or, outside
\* those steps, when placing a matched file fails).
C10_PerFileFailuresAbsorbed ==
    halt \in {None,
              Some("SystemExit: folder"),
              Some("SystemExit: no raw images"),
              Some("SystemExit: no edited images"),
              Some("OSError: copy_or_link")}

\* ---- the order of the reference list

\* The position of a reference path in the enumeration of iter_images.
EnumIndex(p) == CHOOSE n \in 1 .. MaxRaw : RawPath(n) = p

\* The reference entries at the least distance from a query fingerprint.
NearestSet(q, refs) ==
    {j \in 1 .. Len(refs) : Dist(q, refs[j].dhash) = MinDistTo(q, refs)}

\* C11: the list handed to find_best_match is in enumeration order
\* whatever the cache held, so among several equally distant candidates
\* the one enumerated first is reported.
C11_ScanOrderIsEnumerationOrder ==
    /\ \A j, k \in 1 .. Len(raw_hashes) :
           j < k => EnumIndex(raw_hashes[j].path) < EnumIndex(raw_hashes[k].path)
    /\ pc = "done" =>
           LET ok == SelectSeq(edited_seen, Decoded)
           IN  \A k \in 1 .. Len(mapping_rows) :
                   LET q == ok[k].result[1]
                   IN  \E j \in NearestSet(q, raw_hashes) :
                          /\ mapping_rows[k].raw_match = Some(raw_hashes[j].path)
                          /\ \A n \in NearestSet(q, raw_hashes) :
                                 EnumIndex(raw_hashes[j].path) <= EnumIndex(raw_hashes[n].path)

\* ---- the identity saved with a fingerprint

\* The (mtime, size) of a row of the cache file.
RowIdentity(e) == [mtime_ns |-> e.mtime_ns, size |-> e.size]

\* C12: every row save_cache writes pairs its fingerprint with the
\* (mtime, size) the file had when that fingerprint was computed, or, for
\* a reused entry, with the (mtime, size) the cache check validated it
\* against, whatever another program does to the file in between.
C12_RowIdentityIsFingerprintIdentity ==
    InSaveCache =>
        LET onDisk == load_cache(disk)
        IN  \A p \in DOMAIN onDisk :
                \/ \E c \in 1 .. Len(checked) :
                       /\ checked[c].path = p
                       /\ checked[c].reused
                       /\ checked[c].st = Some(RowIdentity(onDisk[p]))
                \/ \E h \in hashed :
                       /\ h.path = p
                       /\ h.result = Some(ImageHash(p, onDisk[p].dhash))
                       /\ h.st = Some(RowIdentity(onDisk[p]))

====
